---- MODULE Spec2Model ----
(***************************************************************************)
(* Dockable-panel window manager of bevy_editor_pls_core (editor.rs).      *)
(* State: the Editor registry, EditorState, EditorInternalState, the       *)
(* per-frame input snapshot of the UI toolkit and the position of the      *)
(* frame inside Editor::editor_ui.                                         *)
(***************************************************************************)
EXTENDS Integers, Sequences, FiniteSets, TLC

\* ---- bounds ------------------------------------------------------------
\* number of distinct window kinds (TypeIds) a plugin author may register
NumKinds == 3
\* spawns of floating windows are cut off once the id counter reaches this
MaxId == 2
\* user interactions in one run: a click, a drag handle reported as dragged,
\* a slot hovered during a drag, a pointer release, the closing of floating
\* windows in one frame
MaxEvents == 3
\* further "Open window" clicks applied when closing is checked on longer lists
MaxOpened == 1

\* ---- Option<T> ---------------------------------------------------------
None == << >>
Some(x) == << x >>
is_some(o) == o # << >>
unwrap(o) == o[1]
Option(S) == {None} \cup {Some(x) : x \in S}

\* ---- types -------------------------------------------------------------
\* TypeIds are opaque tokens; kind k is the k-th identity ever registered
Kinds == 1..NumKinds
EditorPanel == {"Left", "Right", "Bottom"}

\* Screen positions (egui::Pos2): one representative point of the area the
\* docked panels leave free, and one outside of it (over the menu bar)
Pos == {"CentralArea", "MenuArea"}

\* egui::Rect as the set of positions it contains
EVERYTHING == Pos
\* Rect::from_min_size(ui.next_widget_position(), ui.available_size()):
\* what the docked panels and the menu bar leave free
CentralRect == {"CentralArea"}

PanelPosition(panel) == [tag |-> "Panel", panel |-> panel]
FloatingPosition(id) == [tag |-> "FloatingWindow", id |-> id]
\* faulty variant: the origin slot of the drag source is forgotten
panel_of_forgotten(position) == None

\* WindowPosition::panel
panel_of(position) ==
    IF position.tag = "Panel" THEN Some(position.panel) ELSE None

DropPanel(panel) == [tag |-> "Panel", panel |-> panel]
NewFloatingWindow == [tag |-> "NewFloatingWindow"]

FloatingWindow(window, id, original_panel, initial_position) ==
    [window |-> window, id |-> id, original_panel |-> original_panel,
     initial_position |-> initial_position]

VARIABLES
    windows,         \* Editor.windows: IndexMap keys in insertion order
    window_states,   \* Editor.window_states: keys of the HashMap
    editor_state,    \* EditorState
    internal_state,  \* Option<EditorInternalState>: None until the first frame
    input,           \* ctx.input() of the current frame
    pc,              \* position inside the frame
    panicked,        \* a panic!/unwrap aborted the process
    user_events      \* number of user interactions so far (bounded by MaxEvents)

vars == << windows, window_states, editor_state, internal_state, input, pc,
           panicked, user_events >>

\* n more user interactions, within the bound on a run
Interact(n) == /\ user_events + n <= MaxEvents
               /\ user_events' = user_events + n
Count(b) == IF b THEN 1 ELSE 0

\* ---- EditorInternalState methods -----------------------------------------
active_panel(s, panel) ==
    CASE panel = "Left" -> s.left_panel
      [] panel = "Right" -> s.right_panel
      [] panel = "Bottom" -> s.bottom_panel

\* *s.active_panel_mut(panel) = v
active_panel_mut(s, panel, v) ==
    CASE panel = "Left" -> [s EXCEPT !.left_panel = v]
      [] panel = "Right" -> [s EXCEPT !.right_panel = v]
      [] panel = "Bottom" -> [s EXCEPT !.bottom_panel = v]

\* faulty variant: the counter is read but not advanced
next_floating_window_id_stuck(s) == [id |-> s.next_floating_window_id, state |-> s]

\* the counter is a u32; MaxId keeps it far below the overflow at 2^32
next_floating_window_id(s) ==
    [id |-> s.next_floating_window_id,
     state |-> [s EXCEPT !.next_floating_window_id = @ + 1]]

\* faulty variant: the displaced window is not put back at the drag source
set_window_dropped(s, location, window) == s

set_window(s, location, window) ==
    IF location.tag = "Panel"
    THEN active_panel_mut(s, location.panel, Some(window))
    ELSE LET fws == s.floating_windows
             \* iter_mut().find(|a| a.id == id): the first match only
             found(i) == /\ fws[i].id = location.id
                         /\ \A j \in 1..(i-1) : fws[j].id # location.id
         IN [s EXCEPT !.floating_windows =
                [i \in DOMAIN fws |->
                    IF found(i) THEN [fws[i] EXCEPT !.window = window]
                    ELSE fws[i]]]

\* faulty variant: every position counts as inside the viewport
is_in_viewport_anywhere(s, pos) == TRUE

is_in_viewport(s, pos) == pos \in s.viewport

\* faulty variant: the last element is dropped, whatever the index
swap_remove_pop(v, i) == SubSeq(v, 1, Len(v) - 1)

\* Vec::swap_remove at (1-based) index i
swap_remove(v, i) ==
    [j \in 1..(Len(v) - 1) |-> IF j = i THEN v[Len(v)] ELSE v[j]]

\* Vec::push
push(s, fw) == [s EXCEPT !.floating_windows = Append(@, fw)]

\* ---- positions of a frame inside Editor::editor_ui -------------------------
\* faulty variant: the right slot is rendered before the left slot
window_pc_swapped(panel) ==
    CASE panel = "Left" -> "right_window"
      [] panel = "Right" -> "left_window"
      [] panel = "Bottom" -> "bottom_window"

window_pc(panel) ==
    CASE panel = "Left" -> "left_window"
      [] panel = "Right" -> "right_window"
      [] panel = "Bottom" -> "bottom_window"
context_menu_pc(panel) ==
    CASE panel = "Left" -> "left_context_menu"
      [] panel = "Right" -> "right_context_menu"
      [] panel = "Bottom" -> "bottom_context_menu"

\* ---- Editor::add_window ---------------------------------------------------
\* IndexMap::insert: an existing key keeps its place (the value is replaced)
\* and the old value is returned; a new key is appended
index_map_insert(map, key) ==
    IF \E i \in DOMAIN map : map[i] = key
    THEN [map |-> map, old |-> Some(key)]
    ELSE [map |-> Append(map, key), old |-> None]

\* faulty variant: a second registration of an identity is accepted as a new entry
add_window_again(map, states, w) ==
    [windows |-> Append(map, w), window_states |-> states \cup {w}, panic |-> FALSE]

\* faulty variant: the kind is registered without its state blob
add_window_stateless(map, states, w) ==
    LET res == index_map_insert(map, w)
    IN [windows |-> res.map, window_states |-> states, panic |-> is_some(res.old)]

\* the registry after add_window::<W>(), and whether it panicked
add_window(map, states, w) ==
    LET res == index_map_insert(map, w)
    IN IF is_some(res.old)
       THEN [windows |-> res.map, window_states |-> states, panic |-> TRUE]
       ELSE [windows |-> res.map, window_states |-> states \cup {w}, panic |-> FALSE]

AddWindow(w) ==
    /\ pc = "setup"
    /\ ~panicked
    /\ LET res == add_window(windows, window_states, w)
       IN /\ windows' = res.windows
          /\ window_states' = res.window_states
          /\ panicked' = res.panic
    /\ UNCHANGED << editor_state, internal_state, input, pc, user_events >>

\* Editor::window_state / window_state_mut for kind w: the blob stored under
\* w was built as W::State, so the downcast succeeds whenever the key is there
window_state(states, w) == IF w \in states THEN Some(w) ELSE None

\* ---- Editor::system -------------------------------------------------------
\* faulty variant: the iterator over the registry keys skips its first element
nth_window_skip(map, n) == IF n + 1 <= Len(map) THEN Some(map[n + 1]) ELSE None

\* windows.next() on the iterator over the registry keys
nth_window(map, n) == IF n <= Len(map) THEN Some(map[n]) ELSE None

\* faulty variant: the slots start with the first three kinds, registered or not
InitialInternalState_unregistered(map) ==
    [left_panel |-> Some(1),
     right_panel |-> Some(2),
     bottom_panel |-> Some(3),
     floating_windows |-> << >>,
     next_floating_window_id |-> 0,
     active_drag_window |-> None,
     active_drop_location |-> None,
     viewport |-> EVERYTHING]

InitialInternalState(map) ==
    [left_panel |-> nth_window(map, 1),
     right_panel |-> nth_window(map, 2),
     bottom_panel |-> nth_window(map, 3),
     floating_windows |-> << >>,
     next_floating_window_id |-> 0,
     active_drag_window |-> None,
     active_drop_location |-> None,
     viewport |-> EVERYTHING]

\* the input snapshots a frame can see
Inputs == [any_released : BOOLEAN, interact_pos : Option(Pos)]

\* start of Editor::system: insert the resource on the first frame, fetch ctx
System ==
    /\ pc \in {"setup", "system"}
    /\ ~panicked
    /\ internal_state' = IF is_some(internal_state) THEN internal_state
                         ELSE Some(InitialInternalState(windows))
    /\ input' \in Inputs
    /\ Interact(Count(input'.any_released))
    /\ pc' = "menu_bar"
    /\ UNCHANGED << windows, window_states, editor_state, panicked >>

\* ---- Editor::editor_menu_bar ----------------------------------------------
\* faulty variant: the menu opens a kind only when nothing hosts it yet
editor_menu_bar_checked(s, map, clicked) ==
    IF /\ is_some(clicked)
       /\ \A panel \in EditorPanel : active_panel(s, panel) # Some(map[unwrap(clicked)])
       /\ \A i \in DOMAIN s.floating_windows :
             s.floating_windows[i].window # map[unwrap(clicked)]
    THEN LET alloc == next_floating_window_id(s)
         IN push(alloc.state,
                 FloatingWindow(map[unwrap(clicked)], alloc.id, None, None))
    ELSE s

\* clicked: Option of the index (in registry order) of the clicked entry
editor_menu_bar(s, map, clicked) ==
    IF is_some(clicked)
    THEN LET alloc == next_floating_window_id(s)
         IN push(alloc.state,
                 FloatingWindow(map[unwrap(clicked)], alloc.id, None, None))
    ELSE s

EditorMenuBar ==
    /\ pc = "menu_bar"
    /\ ~panicked
    /\ \E play_clicked \in BOOLEAN, clicked \in Option(DOMAIN windows) :
          LET s == unwrap(internal_state)
              active == IF play_clicked THEN ~editor_state.active
                        ELSE editor_state.active
          IN /\ is_some(clicked) => s.next_floating_window_id < MaxId
             /\ Interact(Count(play_clicked) + Count(is_some(clicked)))
             /\ editor_state' = [editor_state EXCEPT !.active = active]
             /\ internal_state' = Some(editor_menu_bar(s, windows, clicked))
             /\ pc' = IF active THEN window_pc("Left") ELSE "floating"
    /\ UNCHANGED << windows, window_states, input, panicked >>

\* ---- crate::drag_and_drop ------------------------------------------------
\* drag_source, as the design describes it: the handle of a slot is enabled
\* only while the slot is occupied, and only an enabled handle reports a drag
drag_source(can_drag, dragged) == can_drag /\ dragged

\* ---- Editor::editor_window ------------------------------------------------
\* selected: Option of the kind clicked in the combo box; none_clicked: the
\* "None" entry was clicked; dragged: the toolkit reports this handle as
\* dragged; hover_drop: is_anything_being_dragged() && drop_response.hovered()
\* faulty variant: selecting a kind first removes it from the other slots
select_window_move(s, panel, selected, none_clicked) ==
    LET s0 == IF is_some(selected)
              THEN [s EXCEPT !.left_panel = IF @ = selected THEN None ELSE @,
                             !.right_panel = IF @ = selected THEN None ELSE @,
                             !.bottom_panel = IF @ = selected THEN None ELSE @]
              ELSE s
        s1 == IF is_some(selected)
              THEN active_panel_mut(s0, panel, Some(unwrap(selected)))
              ELSE s0
    IN IF none_clicked THEN active_panel_mut(s1, panel, None) ELSE s1

\* lines 319-330, the combo box: a clicked kind is stored in the slot, a
\* clicked "None" empties it
select_window(s, panel, selected, none_clicked) ==
    LET s1 == IF is_some(selected)
              THEN active_panel_mut(s, panel, Some(unwrap(selected)))
              ELSE s
    IN IF none_clicked THEN active_panel_mut(s1, panel, None) ELSE s1

\* faulty variant: a slot that is not hovered leaves the recorded target alone
editor_window_sticky(s, panel, selected, none_clicked, dragged, hover_drop) ==
    LET s2 == select_window(s, panel, selected, none_clicked)
        s3 == IF drag_source(is_some(active_panel(s2, panel)), dragged)
              THEN [s2 EXCEPT !.active_drag_window = Some(PanelPosition(panel))]
              ELSE s2
    IN IF hover_drop
       THEN [s3 EXCEPT !.active_drop_location = Some(DropPanel(panel))]
       ELSE s3

editor_window(s, panel, selected, none_clicked, dragged, hover_drop) ==
    LET s2 == select_window(s, panel, selected, none_clicked)
        can_drag == is_some(active_panel(s2, panel))
        s3 == IF drag_source(can_drag, dragged)
              THEN [s2 EXCEPT !.active_drag_window = Some(PanelPosition(panel))]
              ELSE s2
    IN IF hover_drop
       THEN [s3 EXCEPT !.active_drop_location = Some(DropPanel(panel))]
       ELSE IF s3.active_drop_location = Some(DropPanel(panel))
            THEN [s3 EXCEPT !.active_drop_location = None]
            ELSE s3

EditorWindow(panel) ==
    /\ pc = window_pc(panel)
    /\ ~panicked
    /\ \E selected \in Option({windows[i] : i \in DOMAIN windows}),
          none_clicked \in BOOLEAN, dragged \in BOOLEAN, hover_drop \in BOOLEAN :
          \* one pointer: at most one entry of the combo box is clicked
          /\ ~(is_some(selected) /\ none_clicked)
          /\ Interact(Count(is_some(selected)) + Count(none_clicked)
                        + Count(dragged) + Count(hover_drop))
          /\ internal_state' = Some(editor_window(unwrap(internal_state), panel,
                                      selected, none_clicked, dragged, hover_drop))
    /\ pc' = context_menu_pc(panel)
    /\ UNCHANGED << windows, window_states, editor_state, input, panicked >>

\* ---- Editor::editor_window_context_menu -----------------------------------
\* faulty variant: pop-out copies the slot's window instead of taking it
editor_window_context_menu_copy(s, panel, pop_out_clicked) ==
    IF pop_out_clicked /\ is_some(active_panel(s, panel))
    THEN LET alloc == next_floating_window_id(s)
         IN push(alloc.state,
                 FloatingWindow(unwrap(active_panel(s, panel)), alloc.id,
                                Some(panel), None))
    ELSE s

\* faulty variant: the popped-out window does not remember its slot
editor_window_context_menu_orphan(s, panel, pop_out_clicked) ==
    IF pop_out_clicked
    THEN LET window == active_panel(s, panel)
             s1 == active_panel_mut(s, panel, None)
         IN IF is_some(window)
            THEN LET alloc == next_floating_window_id(s1)
                 IN push(alloc.state,
                         FloatingWindow(unwrap(window), alloc.id, None, None))
            ELSE s1
    ELSE s

editor_window_context_menu(s, panel, pop_out_clicked) ==
    IF pop_out_clicked
    THEN LET window == active_panel(s, panel)
             s1 == active_panel_mut(s, panel, None)
         IN IF is_some(window)
            THEN LET alloc == next_floating_window_id(s1)
                 IN push(alloc.state,
                         FloatingWindow(unwrap(window), alloc.id, Some(panel), None))
            ELSE s1
    ELSE s

EditorWindowContextMenu(panel) ==
    /\ pc = context_menu_pc(panel)
    /\ ~panicked
    /\ \E pop_out_clicked \in BOOLEAN :
          LET s == unwrap(internal_state)
              \* add_enabled(window_is_set, ..): a disabled button is not clicked
              window_is_set == is_some(active_panel(s, panel))
              s1 == editor_window_context_menu(s, panel, pop_out_clicked)
          IN /\ pop_out_clicked => window_is_set
             /\ Interact(Count(pop_out_clicked))
             /\ pop_out_clicked => s.next_floating_window_id < MaxId
             /\ internal_state' =
                    \* the central panel computes the viewport after the bottom slot
                    IF panel = "Bottom"
                    THEN Some([s1 EXCEPT !.viewport = CentralRect])
                    ELSE Some(s1)
    /\ pc' = CASE panel = "Left" -> window_pc("Right")
              [] panel = "Right" -> window_pc("Bottom")
              [] panel = "Bottom" -> "floating"
    /\ UNCHANGED << windows, window_states, editor_state, input, panicked >>

\* ---- Editor::editor_floating_windows --------------------------------------
SetMax(S) == CHOOSE x \in S : \A y \in S : y <= x

\* close_floating_windows.iter().rev(): the flagged indices, largest first
RECURSIVE close_floating_windows(_, _)
close_floating_windows(s, closed) ==
    IF closed = {} THEN s
    ELSE LET to_remove == SetMax(closed)
             floating_window == s.floating_windows[to_remove]
             s1 == [s EXCEPT !.floating_windows = swap_remove(@, to_remove)]
             original_panel == floating_window.original_panel
             \* Option::get_or_insert: fills the slot only when it is None
             s2 == IF /\ is_some(original_panel)
                      /\ ~is_some(active_panel(s1, unwrap(original_panel)))
                   THEN active_panel_mut(s1, unwrap(original_panel),
                                         Some(floating_window.window))
                   ELSE s1
         IN close_floating_windows(s2, closed \ {to_remove})

\* closed: the (1-based) indices of the snapshot whose `open` came back false
editor_floating_windows(s, closed) == close_floating_windows(s, closed)

EditorFloatingWindows ==
    /\ pc = "floating"
    /\ ~panicked
    /\ \E closed \in SUBSET DOMAIN unwrap(internal_state).floating_windows :
          /\ internal_state' = Some(editor_floating_windows(unwrap(internal_state), closed))
          /\ Interact(Count(closed # {}))
    /\ pc' = IF editor_state.active THEN "drag_and_drop" ELSE "system"
    /\ UNCHANGED << windows, window_states, editor_state, input, panicked >>

\* ---- Editor::handle_drag_and_drop -----------------------------------------
\* faulty variant: the dragged identity is read but left in its slot
take_dragged_window_copy(s, active_window) ==
    IF active_window.tag = "Panel"
    THEN LET window == active_panel(s, active_window.panel)
         IN [state |-> s, window_id |-> window, panic |-> ~is_some(window)]
    ELSE [state |-> s, window_id |-> None, panic |-> TRUE]

\* lines 466-480: take the dragged identity out of the drag source
take_dragged_window(s, active_window) ==
    IF active_window.tag = "Panel"
    THEN LET window == active_panel(s, active_window.panel)
         IN IF is_some(window)
            THEN [state |-> active_panel_mut(s, active_window.panel, None),
                  window_id |-> window, panic |-> FALSE]
            ELSE [state |-> s, window_id |-> None, panic |-> TRUE]
    ELSE LET fws == s.floating_windows
             matches == {i \in DOMAIN fws : fws[i].id = active_window.id}
         IN IF matches # {}
            THEN LET index == CHOOSE i \in matches : \A j \in matches : i <= j
                 IN [state |-> [s EXCEPT !.floating_windows = swap_remove(@, index)],
                     window_id |-> Some(fws[index].window), panic |-> FALSE]
            ELSE [state |-> s, window_id |-> None, panic |-> TRUE]

\* faulty variant: a drop on a slot overwrites its occupant
drop_window_overwrite(s, active_window, window_id, drop_location, interact_pos) ==
    IF drop_location.tag = "Panel"
    THEN active_panel_mut(s, drop_location.panel, Some(window_id))
    ELSE LET alloc == next_floating_window_id(s)
         IN push(alloc.state,
                 FloatingWindow(window_id, alloc.id, panel_of(active_window),
                                interact_pos))

\* lines 482-500: put the dragged identity at the drop location
drop_window(s, active_window, window_id, drop_location, interact_pos) ==
    IF drop_location.tag = "Panel"
    THEN LET panel == drop_location.panel
             previous_window == active_panel(s, panel)
             s1 == active_panel_mut(s, panel, Some(window_id))
         IN IF is_some(previous_window)
            THEN set_window(s1, active_window, unwrap(previous_window))
            ELSE s1
    ELSE LET alloc == next_floating_window_id(s)
         IN push(alloc.state,
                 FloatingWindow(window_id, alloc.id, panel_of(active_window),
                                interact_pos))

\* faulty variant: the source is emptied after the drop instead of before it
resolve_drag_take_last(s, in, active_window) ==
    LET taken_drop == s.active_drop_location
        s1 == [s EXCEPT !.active_drag_window = None,
                        !.active_drop_location = None]
        abandoned == /\ ~is_some(taken_drop)
                     /\ \/ ~is_some(in.interact_pos)
                        \/ ~is_in_viewport(s1, unwrap(in.interact_pos))
        drop_location == IF is_some(taken_drop) THEN unwrap(taken_drop)
                         ELSE NewFloatingWindow
        taken == take_dragged_window(s1, active_window)
    IN IF abandoned THEN [state |-> s1, panic |-> FALSE]
       ELSE IF taken.panic THEN [state |-> taken.state, panic |-> TRUE]
       ELSE [state |-> take_dragged_window(
                           drop_window(s1, active_window, unwrap(taken.window_id),
                                       drop_location, in.interact_pos),
                           active_window).state,
             panic |-> FALSE]

\* lines 453-502: resolution of the drag whose source is active_window
resolve_drag(s, in, active_window) ==
    LET taken_drop == s.active_drop_location
        s1 == [s EXCEPT !.active_drag_window = None,
                        !.active_drop_location = None]
        abandoned == /\ ~is_some(taken_drop)
                     /\ \/ ~is_some(in.interact_pos)
                        \/ ~is_in_viewport(s1, unwrap(in.interact_pos))
        drop_location == IF is_some(taken_drop) THEN unwrap(taken_drop)
                         ELSE NewFloatingWindow
        taken == take_dragged_window(s1, active_window)
    IN IF abandoned THEN [state |-> s1, panic |-> FALSE]
       ELSE IF taken.panic THEN [state |-> taken.state, panic |-> TRUE]
       ELSE [state |-> drop_window(taken.state, active_window,
                                   unwrap(taken.window_id), drop_location,
                                   in.interact_pos),
             panic |-> FALSE]

\* faulty variant: a release without a drag source resolves a drag of the left slot
handle_drag_and_drop_default_source(s, in) ==
    IF ~in.any_released THEN [state |-> s, panic |-> FALSE]
    ELSE resolve_drag(s, in, IF is_some(s.active_drag_window)
                             THEN unwrap(s.active_drag_window)
                             ELSE PanelPosition("Left"))

\* the whole function; result: the new state and whether an unwrap panicked
handle_drag_and_drop(s, in) ==
    IF ~in.any_released \/ ~is_some(s.active_drag_window)
    THEN [state |-> s, panic |-> FALSE]
    ELSE resolve_drag(s, in, unwrap(s.active_drag_window))

HandleDragAndDrop ==
    /\ pc = "drag_and_drop"
    /\ ~panicked
    /\ LET s == unwrap(internal_state)
           res == handle_drag_and_drop(s, input)
       IN \* a spawn past the bound on the id counter is cut off
          /\ res.state.next_floating_window_id # s.next_floating_window_id
                => s.next_floating_window_id < MaxId
          /\ internal_state' = Some(res.state)
          /\ panicked' = res.panic
    /\ pc' = "system"
    /\ UNCHANGED << windows, window_states, editor_state, input, user_events >>

\* ---- set_main_pass_viewport (feature "viewport") ---------------------------
\* faulty variant: the camera keeps the rectangle while the editor is inactive
set_main_pass_viewport_always(state, s) == Some(s.viewport)

\* the camera viewport derived from the rectangle: editor_state.active.then(..),
\* None being the full frame; the scaling to device pixels is left out
set_main_pass_viewport(state, s) ==
    IF state.active THEN Some(s.viewport) ELSE None

\* ---- the program ------------------------------------------------------------
Init ==
    /\ windows = << >>
    /\ window_states = {}
    /\ editor_state = [active |-> TRUE]
    /\ internal_state = None
    /\ input = [any_released |-> FALSE, interact_pos |-> None]
    /\ pc = "setup"
    /\ panicked = FALSE
    /\ user_events = 0

\* the k-th new identity is kind k; any registered kind can be registered again
Registrable == {w \in Kinds : w <= Len(windows) + 1}

Next ==
    \/ \E w \in Registrable : AddWindow(w)
    \/ System
    \/ EditorMenuBar
    \/ \E panel \in EditorPanel : EditorWindow(panel)
    \/ \E panel \in EditorPanel : EditorWindowContextMenu(panel)
    \/ EditorFloatingWindows
    \/ HandleDragAndDrop

Spec == Init /\ [][Next]_vars

\* ---- properties -------------------------------------------------------------
Initialized == is_some(internal_state)
State == unwrap(internal_state)

Hosts(s, w) ==
    Cardinality({panel \in EditorPanel : active_panel(s, panel) = Some(w)})
    + Cardinality({i \in DOMAIN s.floating_windows : s.floating_windows[i].window = w})

\* every identity is in at most one slot or floating window
Unique(s) == \A w \in Kinds : Hosts(s, w) <= 1

SameSlots(s, t, panels) == \A panel \in panels : active_panel(s, panel) = active_panel(t, panel)

\* C1: in every reachable state a window identity is hosted by at most one
\* place (slot or floating window), whatever operations were used
C1_AtMostOnePlace == Initialized => Unique(State)

\* C2: drag-and-drop resolution, pop-out and floating-window close each
\* preserve uniqueness: from a state where every identity has at most one
\* place, the step leads to such a state again
C2_StepsPreserveUniqueness ==
    [][(/\ pc \in {context_menu_pc(panel) : panel \in EditorPanel}
               \cup {"floating", "drag_and_drop"}
        /\ Unique(State))
       => Unique(State')]_vars

\* a drag out of a slot has been resolved into a floating window (only a
\* resolution gives an initial position) and no identity is placed twice
C2_Witness ==
    /\ Initialized /\ pc = "system" /\ Unique(State)
    /\ \E i \in DOMAIN State.floating_windows :
          LET fw == State.floating_windows[i]
          IN /\ is_some(fw.initial_position)
             /\ is_some(fw.original_panel)
             /\ ~is_some(active_panel(State, unwrap(fw.original_panel)))

\* resolution is about to run for a released drag from occupied slot A onto
\* the different occupied slot B
SwapCase(A, B) ==
    /\ pc = "drag_and_drop" /\ input.any_released /\ A # B
    /\ State.active_drag_window = Some(PanelPosition(A))
    /\ State.active_drop_location = Some(DropPanel(B))
    /\ is_some(active_panel(State, A))
    /\ is_some(active_panel(State, B))

\* C3: resolving a drag from occupied slot A onto a different occupied slot B
\* swaps the two identities and leaves the third slot and the floating
\* windows alone
C3_DragOntoOccupiedSlotSwaps ==
    [][\A A, B \in EditorPanel :
          SwapCase(A, B) =>
            /\ active_panel(State', B) = active_panel(State, A)
            /\ active_panel(State', A) = active_panel(State, B)
            /\ SameSlots(State', State, EditorPanel \ {A, B})
            /\ State'.floating_windows = State.floating_windows]_vars

\* the swap is about to happen between two slots holding different windows
C3_Witness ==
    \E A, B \in EditorPanel :
        SwapCase(A, B) /\ active_panel(State, A) # active_panel(State, B)

\* the state in which the content of `source` is dragged onto `target`
WithDrag(s, source, target) ==
    [s EXCEPT !.active_drag_window = Some(PanelPosition(source)),
              !.active_drop_location = Some(DropPanel(target))]

\* C4: dragging A's content onto occupied B and then B's new content back
\* onto A restores all three slots and leaves the floating windows alone
C4_RoundTripSwap ==
    \A A, B \in EditorPanel :
        SwapCase(A, B) =>
          LET there == handle_drag_and_drop(State, input).state
              back == handle_drag_and_drop(WithDrag(there, B, A), input).state
          IN /\ SameSlots(back, State, EditorPanel)
             /\ back.floating_windows = State.floating_windows

\* the round trip starts with all three slots occupied by different windows
C4_Witness ==
    /\ \E A, B \in EditorPanel : SwapCase(A, B)
    /\ \A panel \in EditorPanel : is_some(active_panel(State, panel))
    /\ Unique(State)

\* resolution is about to run for a released drag from occupied slot A with
\* no drop target recorded and the pointer inside the viewport
FloatCase(A) ==
    /\ pc = "drag_and_drop" /\ input.any_released
    /\ State.active_drag_window = Some(PanelPosition(A))
    /\ is_some(active_panel(State, A))
    /\ ~is_some(State.active_drop_location)
    /\ is_some(input.interact_pos)
    /\ is_in_viewport(State, unwrap(input.interact_pos))

\* C5: a drag from occupied slot A released inside the viewport with no drop
\* target adds exactly one floating window, hosting A's former identity with
\* origin A and the release position; A becomes empty, the rest is unchanged
C5_DragIntoViewportFloats ==
    [][\A A \in EditorPanel :
          FloatCase(A) =>
            LET old == State.floating_windows
                new == State'.floating_windows
            IN /\ Len(new) = Len(old) + 1
               /\ SubSeq(new, 1, Len(old)) = old
               /\ new[Len(new)].window = unwrap(active_panel(State, A))
               /\ new[Len(new)].original_panel = Some(A)
               /\ new[Len(new)].initial_position = input.interact_pos
               /\ active_panel(State', A) = None
               /\ SameSlots(State', State, EditorPanel \ {A})]_vars

\* the frame just resolved a release into a floating window at the release
\* position, and the slot it came from is empty
C5_Witness ==
    /\ Initialized /\ pc = "system" /\ input.any_released
    /\ Len(State.floating_windows) > 0
    /\ LET fw == State.floating_windows[Len(State.floating_windows)]
       IN /\ is_some(fw.initial_position)
          /\ fw.initial_position = input.interact_pos
          /\ is_some(fw.original_panel)
          /\ active_panel(State, unwrap(fw.original_panel)) = None

Range(seq) == {seq[i] : i \in DOMAIN seq}
NoDuplicates(seq) == \A i, j \in DOMAIN seq : i # j => seq[i] # seq[j]

\* C6: closing a floating window removes it; its identity goes to its origin
\* slot if that slot is empty; if the slot is occupied the slot keeps its
\* occupant and the identity is neither docked nor floating afterwards; no
\* occupied slot is overwritten
C6_CloseRestoresOrDiscards ==
    [][(pc = "floating" /\ Len(State'.floating_windows) = Len(State.floating_windows) - 1)
       => LET old == State.floating_windows
              new == State'.floating_windows
              closed == CHOOSE i \in DOMAIN old : old[i].id \notin {new[j].id : j \in DOMAIN new}
              fw == old[closed]
          IN /\ Range(new) = {old[i] : i \in DOMAIN old \ {closed}}
             /\ \A panel \in EditorPanel :
                   is_some(active_panel(State, panel))
                     => active_panel(State', panel) = active_panel(State, panel)
             /\ is_some(fw.original_panel) =>
                   LET origin == unwrap(fw.original_panel)
                   IN IF is_some(active_panel(State, origin))
                      THEN Hosts(State', fw.window) = 0
                      ELSE active_panel(State', origin) = Some(fw.window)]_vars

IdsFresh(s) ==
    LET fws == s.floating_windows
    IN /\ \A i, j \in DOMAIN fws : i # j => fws[i].id # fws[j].id
       /\ \A i \in DOMAIN fws : fws[i].id < s.next_floating_window_id

\* C7: no two open floating windows share an id, every open id is below the
\* next-id counter, the counter never decreases, and an id that appears in a
\* step is at least the counter before the step (so above every earlier id)
C7_FloatingIdsFresh ==
    [][Initialized' =>
         /\ IdsFresh(State')
         /\ Initialized =>
               /\ IdsFresh(State)
               /\ State'.next_floating_window_id >= State.next_floating_window_id
               /\ \A j \in DOMAIN State'.floating_windows :
                     LET id == State'.floating_windows[j].id
                     IN \/ id >= State.next_floating_window_id
                        \/ \E i \in DOMAIN State.floating_windows :
                              State.floating_windows[i].id = id]_vars

\* two floating windows are open at once
C7_Witness == Initialized /\ Len(State.floating_windows) = 2

\* C8: a pointer release with no active drag source changes neither the
\* slots nor the floating windows nor the id counter
C8_ReleaseWithoutDragChangesNothing ==
    [][(/\ pc = "drag_and_drop" /\ input.any_released
        /\ ~is_some(State.active_drag_window))
       => /\ SameSlots(State', State, EditorPanel)
          /\ State'.floating_windows = State.floating_windows
          /\ State'.next_floating_window_id = State.next_floating_window_id]_vars

\* resolution is about to run for a release inside the viewport, with the
\* left slot occupied and no drag source
C8_Witness ==
    /\ pc = "drag_and_drop" /\ input.any_released
    /\ ~is_some(State.active_drag_window)
    /\ input.interact_pos = Some("CentralArea")
    /\ is_some(State.left_panel)

\* C9: the first frame docks the first three registered kinds left, right and
\* bottom in registration order, leaves the other slots empty, and starts
\* with no floating windows, no drag source, no drop target and counter 0
C9_InitialLayout ==
    [][(~Initialized /\ Initialized')
       => /\ State'.left_panel = IF Len(windows) >= 1 THEN Some(windows[1]) ELSE None
          /\ State'.right_panel = IF Len(windows) >= 2 THEN Some(windows[2]) ELSE None
          /\ State'.bottom_panel = IF Len(windows) >= 3 THEN Some(windows[3]) ELSE None
          /\ State'.floating_windows = << >>
          /\ State'.active_drag_window = None
          /\ State'.active_drop_location = None
          /\ State'.next_floating_window_id = 0]_vars

\* the first frame has just built the layout from a registry of two kinds
C9_Witness ==
    /\ Initialized /\ pc = "menu_bar" /\ Len(windows) = 2
    /\ State.left_panel = Some(windows[1])
    /\ State.right_panel = Some(windows[2])
    /\ State.bottom_panel = None
    /\ State.next_floating_window_id = 0

\* what add_window does to the registry at hand, for every identity
RegistrationOutcome ==
    \A w \in Kinds :
        LET res == add_window(windows, window_states, w)
        IN IF w \in Range(windows)
           THEN res.panic
           ELSE ~res.panic /\ res.windows = Append(windows, w)

\* C10: registering an identity that is already registered panics and
\* registering a new one succeeds; the registry holds each identity once and
\* never loses one
C10_RegistrationRejectsDuplicates ==
    [][/\ RegistrationOutcome /\ RegistrationOutcome'
       /\ NoDuplicates(windows) /\ NoDuplicates(windows')
       /\ Range(windows) \subseteq Range(windows')]_vars

\* a second registration of a registered kind has panicked
C10_Witness == pc = "setup" /\ panicked /\ Len(windows) >= 1

\* C11: the typed state accessor returns a state for an identity exactly
\* when the identity is registered, and nothing for an unregistered one
C11_StateExactlyForRegisteredKinds ==
    \A w \in Kinds :
        is_some(window_state(window_states, w)) <=> w \in Range(windows)

\* two kinds are registered and a third is not
C11_Witness ==
    /\ ~panicked /\ Len(windows) = 2
    /\ is_some(window_state(window_states, windows[2]))
    /\ \E w \in Kinds : w \notin Range(windows) /\ window_state(window_states, w) = None

\* what a click on the i-th entry of the "Open window" menu must give
OpenedFrom(s, i) ==
    Append(s.floating_windows,
           [window |-> windows[i], id |-> s.next_floating_window_id,
            original_panel |-> None, initial_position |-> None])

\* C12: a click on a kind in the "Open window" menu appends exactly one
\* floating window hosting that kind, without origin slot and without initial
\* position, whether or not the kind is hosted already, and changes no slot
\* and no other floating window
C12_MenuOpenAlwaysSpawns ==
    [][pc = "menu_bar" =>
         /\ \A i \in DOMAIN windows :
               LET opened == editor_menu_bar(State, windows, Some(i))
               IN /\ opened.floating_windows = OpenedFrom(State, i)
                  /\ SameSlots(opened, State, EditorPanel)
         /\ SameSlots(State', State, EditorPanel)
         /\ \/ State'.floating_windows = State.floating_windows
            \/ \E i \in DOMAIN windows :
                  State'.floating_windows = OpenedFrom(State, i)]_vars

\* a kind opened from the menu floats while the right slot holds it too
C12_Witness ==
    /\ Initialized
    /\ \E i \in DOMAIN State.floating_windows :
          LET fw == State.floating_windows[i]
          IN /\ fw.original_panel = None
             /\ fw.initial_position = None
             /\ State.right_panel = Some(fw.window)

\* the state in which floating window `id` is dragged onto slot `target`
WithFloatingDrag(s, id, target) ==
    [s EXCEPT !.active_drag_window = Some(FloatingPosition(id)),
              !.active_drop_location = Some(DropPanel(target))]

C14_ResolvedSourceSlotOccupied ==
    (Initialized /\ pc = "drag_and_drop" /\ input.any_released) =>
      \A A \in EditorPanel :
          (/\ State.active_drag_window = Some(PanelPosition(A))
           /\ \/ is_some(State.active_drop_location)
              \/ /\ is_some(input.interact_pos)
                 /\ is_in_viewport(State, unwrap(input.interact_pos)))
            => /\ is_some(active_panel(State, A))
               /\ ~handle_drag_and_drop(State, input).panic

\* C15: a frame in which the pointer is released while a drag source is set
\* ends with the drag source and the drop target both empty, whether the
\* editor is active or inactive
C15_DragStateClearedOnRelease ==
    [][(/\ pc \in {"floating", "drag_and_drop"}
        /\ pc' = "system"
        /\ ~panicked'
        /\ input.any_released
        /\ is_some(State.active_drag_window))
       => /\ State'.active_drag_window = None
          /\ State'.active_drop_location = None]_vars

\* a released drag from slot A with no recorded drop target and the pointer
\* outside the viewport, or without a position
AbandonCase(A) ==
    /\ Initialized
    /\ pc = "drag_and_drop"
    /\ input.any_released
    /\ State.active_drag_window = Some(PanelPosition(A))
    /\ State.active_drop_location = None
    /\ \/ input.interact_pos = None
       \/ unwrap(input.interact_pos) \notin State.viewport

\* C16: a drag released with no drop target outside the viewport is
\* abandoned: the drag source is cleared and the slots, the floating windows
\* and the id counter are unchanged
C16_ReleaseOutsideViewportAbandons ==
    [][\A A \in EditorPanel :
          AbandonCase(A) =>
            /\ ~panicked'
            /\ State' = [State EXCEPT !.active_drag_window = None]
            /\ active_panel(State', A) = active_panel(State, A)]_vars

C16_Witness ==
    /\ AbandonCase("Left")
    /\ input.interact_pos = Some("MenuArea")
    /\ is_some(State.left_panel)
    /\ State.floating_windows # << >>

WindowPcs == {window_pc(p) : p \in EditorPanel}

\* the drop target slot `panel` leaves behind when it is rendered
HoverOutcome(s, panel, hover_drop) ==
    IF hover_drop THEN Some(DropPanel(panel))
    ELSE IF s.active_drop_location = Some(DropPanel(panel)) THEN None
    ELSE s.active_drop_location

\* the drop target after the three slots are rendered with the given hovers
RenderPass(s, hover) ==
    LET left == editor_window(s, "Left", None, FALSE, FALSE, hover["Left"])
        right == editor_window(left, "Right", None, FALSE, FALSE, hover["Right"])
    IN editor_window(right, "Bottom", None, FALSE, FALSE, hover["Bottom"])

LastHovered(hover) ==
    IF hover["Bottom"] THEN Some(DropPanel("Bottom"))
    ELSE IF hover["Right"] THEN Some(DropPanel("Right"))
    ELSE IF hover["Left"] THEN Some(DropPanel("Left"))
    ELSE None

\* C17: the drop target seen by drag resolution is this frame's hover: a
\* rendered slot records itself when hovered and otherwise clears only its own
\* claim, no other step of the frame writes the target, and so after the
\* render pass the target is the slot hovered last or empty, whatever target
\* an earlier frame left behind
C17_DropTargetIsThisFramesHover ==
    [][Initialized =>
        /\ \A p \in EditorPanel :
              pc = window_pc(p) =>
                /\ \A none_clicked \in BOOLEAN, dragged \in BOOLEAN, hover_drop \in BOOLEAN :
                      editor_window(State, p, None, none_clicked, dragged,
                                    hover_drop).active_drop_location
                        = HoverOutcome(State, p, hover_drop)
                /\ \E hover_drop \in BOOLEAN :
                      State'.active_drop_location = HoverOutcome(State, p, hover_drop)
        /\ (pc \notin WindowPcs \cup {"drag_and_drop"})
              => State'.active_drop_location = State.active_drop_location
        /\ pc = window_pc("Left")
              => \A hover \in [EditorPanel -> BOOLEAN] :
                    RenderPass(State, hover).active_drop_location = LastHovered(hover)]_vars

\* a frame starts rendering with a drop target left behind by an earlier frame
C17_Witness ==
    /\ Initialized
    /\ pc = window_pc("Left")
    /\ is_some(State.active_drag_window)
    /\ State.active_drop_location = Some(DropPanel("Right"))

\* resolution is about to run for a released drag from occupied slot A onto
\* the different empty slot B
MoveCase(A, B) ==
    /\ Initialized
    /\ pc = "drag_and_drop" /\ input.any_released /\ A # B
    /\ State.active_drag_window = Some(PanelPosition(A))
    /\ State.active_drop_location = Some(DropPanel(B))
    /\ is_some(active_panel(State, A))
    /\ active_panel(State, B) = None

\* C18: resolving a drag from occupied slot A onto a different empty slot B
\* moves the identity: B holds it, A is empty, and the third slot, the
\* floating windows and the id counter are unchanged
C18_DragOntoEmptySlotMoves ==
    [][\A A, B \in EditorPanel :
          MoveCase(A, B) =>
            /\ ~panicked'
            /\ active_panel(State', B) = active_panel(State, A)
            /\ active_panel(State', A) = None
            /\ SameSlots(State', State, EditorPanel \ {A, B})
            /\ State'.floating_windows = State.floating_windows
            /\ State'.next_floating_window_id = State.next_floating_window_id]_vars

\* the move is about to happen while the third slot is in use
C18_Witness ==
    /\ MoveCase("Left", "Bottom")
    /\ is_some(State.right_panel)

\* the floating windows of s after the occupant of `panel` is popped out
PoppedOutFrom(s, panel) ==
    Append(s.floating_windows,
           [window |-> unwrap(active_panel(s, panel)), id |-> s.next_floating_window_id,
            original_panel |-> Some(panel), initial_position |-> None])

\* C19: pop-out on an occupied slot empties the slot and appends exactly one
\* floating window hosting the former occupant, with the slot as origin and
\* a fresh id, leaving the other slots and floating windows alone; closing
\* that window while the slot is still empty restores the slots as they were
C19_PopOutAndCloseRestores ==
    [][\A p \in EditorPanel :
          (Initialized /\ pc = context_menu_pc(p)) =>
            /\ is_some(active_panel(State, p)) =>
                  LET popped == editor_window_context_menu(State, p, TRUE)
                      closed == editor_floating_windows(popped, {Len(popped.floating_windows)})
                  IN /\ active_panel(popped, p) = None
                     /\ SameSlots(popped, State, EditorPanel \ {p})
                     /\ popped.floating_windows = PoppedOutFrom(State, p)
                     /\ \A i \in DOMAIN State.floating_windows :
                           State.floating_windows[i].id # State.next_floating_window_id
                     /\ SameSlots(closed, State, EditorPanel)
                     /\ closed.floating_windows = State.floating_windows
            /\ SameSlots(State', State, EditorPanel \ {p})
            /\ \/ /\ State'.floating_windows = State.floating_windows
                  /\ active_panel(State', p) = active_panel(State, p)
               \/ /\ is_some(active_panel(State, p))
                  /\ State'.floating_windows = PoppedOutFrom(State, p)
                  /\ active_panel(State', p) = None]_vars

\* the left slot was just popped out next to an older floating window
C19_Witness ==
    /\ Initialized
    /\ pc = window_pc("Right")
    /\ State.left_panel = None
    /\ Len(State.floating_windows) = 2
    /\ State.floating_windows[2].original_panel = Some("Left")
    /\ State.floating_windows[1].original_panel # Some("Left")

\* s and t differ at most in slot `panel`, which holds `occupant` in t
OnlySlotSet(s, t, panel, occupant) ==
    /\ active_panel(t, panel) = occupant
    /\ SameSlots(t, s, EditorPanel \ {panel})
    /\ t.floating_windows = s.floating_windows
    /\ t.next_floating_window_id = s.next_floating_window_id
    /\ t.active_drag_window = s.active_drag_window
    /\ t.active_drop_location = s.active_drop_location
    /\ t.viewport = s.viewport

\* C20: selecting a kind in a slot's combo box stores it in that slot over
\* any previous occupant and selecting "None" empties the slot; the other
\* slots, the floating windows, the drag state and the id counter are as
\* they would be without the selection
C20_ComboSelectionSetsOnlyItsSlot ==
    [][\A p \in EditorPanel :
          (Initialized /\ pc = window_pc(p)) =>
            /\ \A i \in DOMAIN windows :
                  /\ OnlySlotSet(State, select_window(State, p, Some(windows[i]), FALSE),
                                 p, Some(windows[i]))
                  /\ \A hover_drop \in BOOLEAN :
                        OnlySlotSet(editor_window(State, p, None, FALSE, FALSE, hover_drop),
                                    editor_window(State, p, Some(windows[i]), FALSE, FALSE,
                                                  hover_drop),
                                    p, Some(windows[i]))
            /\ OnlySlotSet(State, select_window(State, p, None, TRUE), p, None)
            /\ \A hover_drop \in BOOLEAN :
                  OnlySlotSet(editor_window(State, p, None, FALSE, FALSE, hover_drop),
                              editor_window(State, p, None, TRUE, FALSE, hover_drop),
                              p, None)
            /\ SameSlots(State', State, EditorPanel \ {p})
            /\ State'.floating_windows = State.floating_windows
            /\ State'.next_floating_window_id = State.next_floating_window_id
            /\ active_panel(State', p)
                  \in {active_panel(State, p), None} \cup {Some(windows[i]) : i \in DOMAIN windows}]_vars

\* a selection has just put the kind of one slot into another slot as well
C20_Witness ==
    /\ Initialized
    /\ user_events = 1
    /\ pc = context_menu_pc("Right")
    /\ is_some(State.left_panel)
    /\ State.right_panel = State.left_panel
    /\ State.floating_windows = << >>

\* s after k further "Open window" clicks on the first registered kind
RECURSIVE Opened(_, _)
Opened(s, k) ==
    IF k = 0 THEN s ELSE Opened(editor_menu_bar(s, windows, Some(1)), k - 1)

\* closing the flagged indices of s removes exactly those floating windows
ClosesExactly(s, closed, after) ==
    /\ Len(after.floating_windows) = Len(s.floating_windows) - Cardinality(closed)
    /\ Range(after.floating_windows)
         = {s.floating_windows[i] : i \in DOMAIN s.floating_windows \ closed}

\* C21: closing any subset of the floating windows in one frame removes
\* exactly the flagged windows and keeps every other one with its id,
\* identity and origin, for every list length and every subset
C21_CloseRemovesExactlyFlagged ==
    [][(Initialized /\ pc = "floating") =>
        /\ \A k \in 0..MaxOpened :
              windows # << >> =>
                LET s == Opened(State, k)
                IN \A closed \in SUBSET DOMAIN s.floating_windows :
                      ClosesExactly(s, closed, editor_floating_windows(s, closed))
        /\ \E closed \in SUBSET DOMAIN State.floating_windows :
              ClosesExactly(State, closed, State')]_vars

\* the older of two floating windows was closed and the younger one remains
C21_Witness ==
    /\ Initialized
    /\ pc \in {"drag_and_drop", "system"}
    /\ user_events = 3
    /\ State.next_floating_window_id = 2
    /\ Len(State.floating_windows) = 1
    /\ State.floating_windows[1].id = 1

\* the step at position `at` renders slot `panel` and leads to `next`: it can
\* change no other slot and can record no other slot as drag source or
\* drop target
RendersSlot(at, panel, next) ==
    pc = at =>
      /\ pc' = next
      /\ editor_state.active
      /\ SameSlots(State', State, EditorPanel \ {panel})
      /\ State'.active_drag_window
            \in {State.active_drag_window, Some(PanelPosition(panel))}
      /\ State'.active_drop_location
            \in {State.active_drop_location, None, Some(DropPanel(panel))}

\* the step at position `at` is the context menu of slot `panel`
RendersContextMenu(at, panel, next) ==
    pc = at =>
      /\ pc' = next
      /\ editor_state.active
      /\ SameSlots(State', State, EditorPanel \ {panel})
      /\ State'.active_drag_window = State.active_drag_window
      /\ State'.active_drop_location = State.active_drop_location

\* C22: an active frame runs menu bar, left slot, right slot, bottom slot,
\* floating windows, drag resolution in this order and the next frame starts
\* after the resolution; an inactive frame runs only the menu bar and the
\* floating windows, renders no slot and resolves no drag
C22_FrameOrder ==
    [][/\ pc \in {"setup", "system"} => pc' \in {pc, "menu_bar"}
       /\ pc # "menu_bar" => editor_state' = editor_state
       /\ Initialized =>
            /\ pc = "menu_bar" =>
                  /\ pc' = IF editor_state'.active THEN "left_window" ELSE "floating"
                  /\ SameSlots(State', State, EditorPanel)
                  /\ State'.active_drag_window = State.active_drag_window
                  /\ State'.active_drop_location = State.active_drop_location
            /\ RendersSlot("left_window", "Left", "left_context_menu")
            /\ RendersContextMenu("left_context_menu", "Left", "right_window")
            /\ RendersSlot("right_window", "Right", "right_context_menu")
            /\ RendersContextMenu("right_context_menu", "Right", "bottom_window")
            /\ RendersSlot("bottom_window", "Bottom", "bottom_context_menu")
            /\ RendersContextMenu("bottom_context_menu", "Bottom", "floating")
            /\ pc = "floating" =>
                  /\ pc' = IF editor_state.active THEN "drag_and_drop" ELSE "system"
                  /\ State'.active_drag_window = State.active_drag_window
                  /\ State'.active_drop_location = State.active_drop_location
            /\ pc = "drag_and_drop" => (editor_state.active /\ pc' = "system")]_vars

\* an inactive frame with a released drag reaches the floating windows
C22_Witness ==
    /\ Initialized
    /\ pc = "floating"
    /\ ~editor_state.active
    /\ input.any_released
    /\ is_some(State.active_drag_window)

\* C23: after a frame the viewport rectangle is the area not covered by
\* docked panels when the editor is active and the entire screen when it is
\* inactive
C23_ViewportFullScreenWhenInactive ==
    (Initialized /\ pc = "system") =>
        State.viewport = IF editor_state.active THEN CentralRect ELSE EVERYTHING

\* C23 as the code has it: the rectangle is written only by the central-area
\* pass of an active frame and otherwise keeps its last value; after an
\* active frame it is the area not covered by docked panels, and the camera
\* viewport derived from it is that area when the editor is active and the
\* full frame when it is inactive
C23_ViewportLastComputed ==
    [][Initialized =>
        /\ State'.viewport = IF pc = "bottom_context_menu" THEN CentralRect
                              ELSE State.viewport
        /\ pc' = "system" =>
              /\ editor_state'.active => State'.viewport = CentralRect
              /\ set_main_pass_viewport(editor_state', State')
                    = IF editor_state'.active THEN Some(CentralRect) ELSE None]_vars

\* an inactive frame has ended with the rectangle of the last active frame
C23_Witness ==
    /\ Initialized
    /\ pc = "system"
    /\ ~editor_state.active
    /\ State.viewport = CentralRect

\* resolution is about to run for a released drag from occupied slot A that
\* is dropped on slot A itself
SameSlotCase(A) ==
    /\ Initialized
    /\ pc = "drag_and_drop" /\ input.any_released
    /\ State.active_drag_window = Some(PanelPosition(A))
    /\ State.active_drop_location = Some(DropPanel(A))
    /\ is_some(active_panel(State, A))

\* C24: resolving a drag whose source slot is also its drop target leaves
\* the layout as it was: the slot holds the same identity and the other
\* slots, the floating windows and the id counter are unchanged
C24_DropOnSourceSlotKeepsLayout ==
    [][\A A \in EditorPanel :
          SameSlotCase(A) =>
            /\ ~panicked'
            /\ SameSlots(State', State, EditorPanel)
            /\ State'.floating_windows = State.floating_windows
            /\ State'.next_floating_window_id = State.next_floating_window_id]_vars

\* the right slot is about to be dropped on itself next to an occupied slot
C24_Witness ==
    /\ SameSlotCase("Right")
    /\ is_some(State.left_panel)
    /\ State.left_panel # State.right_panel

\* the identities hosted by a slot or a floating window of s
Hosted(s) ==
    {unwrap(active_panel(s, panel)) : panel \in {p \in EditorPanel : is_some(active_panel(s, p))}}
    \cup {s.floating_windows[i].window : i \in DOMAIN s.floating_windows}

\* C25: every identity held by a slot or hosted by a floating window is a
\* registered window kind, so the lookups self.windows[&id] never fail
C25_HostedKindsAreRegistered ==
    Initialized => Hosted(State) \subseteq Range(windows)

\* two floating windows and three occupied slots host registered kinds
C25_Witness ==
    /\ Initialized
    /\ Len(State.floating_windows) = 2
    /\ \A panel \in EditorPanel : is_some(active_panel(State, panel))
    /\ Cardinality(Hosted(State)) = 3

====
